---- MODULE Spec2Model ----
(***************************************************************************)
(* A model of simple_history/models.py: the signal handlers of             *)
(* HistoricalRecords (post_save, post_delete, m2m_changed), the            *)
(* save_without_historical_record method, the historical model's extra     *)
(* fields and default ordering, and the foreign-key downgrade of           *)
(* ForeignKeyMixin (get_field, get_one_to_one_field, do_related_class).    *)
(***************************************************************************)
EXTENDS Integers, Sequences, FiniteSets, TLC

\* ------------------------------------------------------------------ bounds
MaxOps == 3          \* operations and clock ticks in one behaviour
MaxChain == 3        \* longest chain of one-to-one primary keys

\* ------------------------------------------------------------------ domains
Instances == {1, 2}              \* primary keys of the audited source model
Names == {"A", "B"}              \* values of the source model's data column
Teams == {1, 2}                  \* owners of the audited many-to-many relation
Accounts == {1, 2}               \* targets of the audited many-to-many relation
Outcomes == {"ok", "raise"}      \* Model.save() returns or raises
None == "None"

VARIABLES
    saved,            \* primary keys of the source rows present in the database
    name,             \* name[pk]: the data attribute of the in-memory instance
    skip,             \* instances carrying the attribute skip_history_when_saving
    history,          \* historical table of the source model: [rows, next_id]
    through,          \* rows of the many-to-many through table
    through_next_id,  \* AutoField counter of the through table
    through_history,  \* historical table of the through model: [rows, next_id]
    now,              \* the clock read by auto_now_add
    nops,             \* operations performed so far
    mutations,        \* log of the mutations performed on source instances
    last,             \* the operation performed last, with its inputs
    just_skipped,     \* instances whose latest operation was
                      \* save_without_historical_record
    pk_of,            \* pk_of[m]: the primary-key column of model m
    other,            \* the model the history column's ForeignKey points at
    fields,           \* field objects: fields[0] is the history column (self)
    fk_pc,            \* position inside do_related_class
    fk_cur,           \* the field object get_field is running on
    fk_ret            \* the field object get_field returned

vars == <<saved, name, skip, history, through, through_next_id, through_history,
          now, nops, mutations, last, just_skipped, pk_of, other, fields, fk_pc, fk_cur, fk_ret>>

auditVars == <<saved, name, skip, history, through, through_next_id,
               through_history, now, nops, mutations, last, just_skipped>>
fkVars == <<pk_of, other, fields, fk_pc, fk_cur, fk_ret>>

\* ------------------------------------------------------------------ helpers
RECURSIVE SetToSeqs(_)
\* every enumeration of a finite set as a sequence (queryset without order_by)
SetToSeqs(S) ==
    IF S = {} THEN {<<>>}
    ELSE UNION {{<<x>> \o s : s \in SetToSeqs(S \ {x})} : x \in S}

\* the instance object handed to a signal handler
Instance(pk) ==
    [id |-> pk, name |-> name[pk],
     skip_history_when_saving |-> pk \in skip,
     history_user |-> None]

\* ------------------------------------------------- the historical model
SourceFields == {"id", "name"}                 \* instance._meta.fields (source)
ThroughFields == {"id", "team", "account"}     \* instance._meta.fields (through)
EmptyTable == [rows |-> <<>>, next_id |-> 1]

\* create_historical_record: snapshot every field of the instance and
\* manager.create() one row; history_id is the AutoField the database assigns,
\* history_date the clock read by auto_now_add
create_historical_record(tbl, instance, meta_fields, type) ==
    [rows |-> Append(tbl.rows,
                     [history_id |-> tbl.next_id,
                      history_date |-> now,
                      history_user |-> instance.history_user,
                      history_type |-> type,
                      attrs |-> [f \in meta_fields |-> instance[f]]]),
     next_id |-> tbl.next_id + 1]

\* post_save with the raw test applied to updates only (mutant)
post_save_raw_updates_only(tbl, instance, created, raw) ==
    IF ~created /\ instance.skip_history_when_saving THEN tbl
    ELSE IF created \/ ~raw
         THEN create_historical_record(tbl, instance, SourceFields,
                                       IF created THEN "+" ELSE "~")
         ELSE tbl

\* HistoricalRecords.post_save
post_save(tbl, instance, created, raw) ==
    IF ~created /\ instance.skip_history_when_saving THEN tbl
    ELSE IF ~raw
         THEN create_historical_record(tbl, instance, SourceFields,
                                       IF created THEN "+" ELSE "~")
         ELSE tbl

\* post_delete that honours the suppression marker (mutant)
post_delete_suppressible(tbl, instance) ==
    IF instance.skip_history_when_saving THEN tbl
    ELSE create_historical_record(tbl, instance, SourceFields, "-")

\* post_delete that drops the instance's earlier rows (mutant)
post_delete_cascading(tbl, instance) ==
    create_historical_record(
        [tbl EXCEPT !.rows = SelectSeq(tbl.rows,
                                       LAMBDA r : r.attrs.id # instance.id)],
        instance, SourceFields, "-")

\* HistoricalRecords.post_delete
post_delete(tbl, instance) ==
    create_historical_record(tbl, instance, SourceFields, "-")

\* save_without_historical_record whose del runs only after a normal
\* return (mutant)
marker_after_no_finally(skipset, pk, outcome) ==
    IF outcome = "ok" THEN (skipset \cup {pk}) \ {pk} ELSE skipset \cup {pk}

\* save_without_historical_record: the attribute is set before the save and
\* deleted in the finally clause, on both exits
marker_after(skipset, pk, outcome) == (skipset \cup {pk}) \ {pk}

\* ------------------------------------------------- operations on the source
\* the record kept of the operation performed last: its inputs and the
\* number of rows each historical table held before it
NoOp == [op |-> "init", pk |-> 0, created |-> FALSE, raw |-> FALSE,
         marker |-> FALSE, outcome |-> "ok", after_swhr |-> FALSE,
         before |-> 0, tbefore |-> 0,
         itype |-> "", pk_set |-> {}, present |-> {}, raised |-> None]

Record(op, pk, created, raw, marker, outcome) ==
    [NoOp EXCEPT !.op = op, !.pk = pk, !.created = created, !.raw = raw,
                 !.marker = marker, !.outcome = outcome,
                 !.after_swhr = pk \in just_skipped,
                 !.before = Len(history.rows),
                 !.tbefore = Len(through_history.rows)]

Mutation(pk, created, raw, marker) ==
    [pk |-> pk, op |-> IF created THEN "insert" ELSE "update",
     raw |-> raw, suppressed |-> marker]

\* instance.name = nm; instance.save(): Django writes the row and sends
\* post_save(created = the row was inserted, raw = False), or raises before
\* the signal
Save(pk, nm, outcome) ==
    LET instance == [Instance(pk) EXCEPT !.name = nm]
        created == pk \notin saved
    IN  /\ nops < MaxOps
        /\ nops' = nops + 1
        /\ name' = [name EXCEPT ![pk] = nm]
        /\ IF outcome = "ok"
           THEN /\ saved' = saved \cup {pk}
                /\ history' = post_save(history, instance, created, FALSE)
                /\ mutations' = Append(mutations,
                       Mutation(pk, created, FALSE,
                                instance.skip_history_when_saving))
           ELSE UNCHANGED <<saved, history, mutations>>
        /\ last' = Record("save", pk, created, FALSE,
                          instance.skip_history_when_saving, outcome)
        /\ UNCHANGED <<skip, through, through_next_id, through_history, now>>
        /\ just_skipped' = just_skipped \ {pk}
        /\ UNCHANGED fkVars

\* instance.name = nm; instance.save_without_historical_record()
SaveWithoutHistoricalRecord(pk, nm, outcome) ==
    LET instance == [Instance(pk) EXCEPT !.name = nm,
                                         !.skip_history_when_saving = TRUE]
        created == pk \notin saved
    IN  /\ nops < MaxOps
        /\ nops' = nops + 1
        /\ name' = [name EXCEPT ![pk] = nm]
        /\ IF outcome = "ok"
           THEN /\ saved' = saved \cup {pk}
                /\ history' = post_save(history, instance, created, FALSE)
                /\ mutations' = Append(mutations,
                       Mutation(pk, created, FALSE, TRUE))
           ELSE UNCHANGED <<saved, history, mutations>>
        /\ skip' = marker_after(skip, pk, outcome)
        /\ last' = Record("save_without_historical_record", pk, created,
                          FALSE, TRUE, outcome)
        /\ UNCHANGED <<through, through_next_id, through_history, now>>
        /\ just_skipped' = just_skipped \cup {pk}
        /\ UNCHANGED fkVars

\* a bulk load (loaddata) saves a freshly deserialized object: Django sends
\* post_save with raw = True
RawSave(pk, nm) ==
    LET instance == [id |-> pk, name |-> nm,
                     skip_history_when_saving |-> FALSE,
                     history_user |-> None]
        created == pk \notin saved
    IN  /\ nops < MaxOps
        /\ nops' = nops + 1
        /\ saved' = saved \cup {pk}
        /\ history' = post_save(history, instance, created, TRUE)
        /\ mutations' = Append(mutations, Mutation(pk, created, TRUE, FALSE))
        /\ last' = Record("raw_save", pk, created, TRUE, FALSE, "ok")
        /\ UNCHANGED <<name, skip, through, through_next_id, through_history,
                       now>>
        /\ just_skipped' = just_skipped \ {pk}
        /\ UNCHANGED fkVars

\* instance.delete(): Django deletes the row and sends post_delete
Delete(pk) ==
    /\ nops < MaxOps
    /\ pk \in saved
    /\ nops' = nops + 1
    /\ saved' = saved \ {pk}
    /\ history' = post_delete(history, Instance(pk))
    /\ mutations' = Append(mutations,
           [pk |-> pk, op |-> "delete", raw |-> FALSE, suppressed |-> FALSE])
    /\ last' = Record("delete", pk, FALSE, FALSE, pk \in skip, "ok")
    /\ UNCHANGED <<name, skip, through, through_next_id, through_history, now>>
    /\ just_skipped' = just_skipped \ {pk}
    /\ UNCHANGED fkVars

\* the caller sets instance.skip_history_when_saving = True itself
SetSkip(pk) ==
    /\ nops < MaxOps
    /\ pk \notin skip
    /\ nops' = nops + 1
    /\ skip' = skip \cup {pk}
    /\ last' = Record("set_skip", pk, FALSE, FALSE, TRUE, "ok")
    /\ UNCHANGED <<saved, name, history, mutations, through, through_next_id,
                   through_history, now>>
    /\ just_skipped' = just_skipped \ {pk}
    /\ UNCHANGED fkVars

\* time passes between two operations
Tick ==
    /\ nops < MaxOps
    /\ nops' = nops + 1
    /\ now' = now + 1
    /\ UNCHANGED <<saved, name, skip, history, through, through_next_id,
                   through_history, mutations, last, just_skipped>>
    /\ UNCHANGED fkVars

\* ------------------------------------------------- the many-to-many relation
\* sender.__dict__: the through model's relational descriptors, by field name,
\* each with field.related.parent_model
ThroughDescriptors == [team |-> "Team", account |-> "Account"]

\* type(instance) of the object whose relation changes: a Team, an instance
\* of a proxy subclass of Team, or (from the reverse side) an Account
InstanceTypes == {"Team", "SpecialTeam", "Account"}

\* kwargs['model']: the class of the objects added to or removed from the
\* relation
RelatedModel(itype) == IF itype = "Account" THEN "Team" ELSE "Account"

Owners(itype) == IF itype = "Account" THEN Accounts ELSE Teams
Targets(itype) == IF itype = "Account" THEN Teams ELSE Accounts

\* m2m_changed, the descriptor loop: the field whose parent model is
\* kwargs['model']
target_field_name(itype, model) ==
    LET hits == {f \in DOMAIN ThroughDescriptors :
                    ThroughDescriptors[f] = model}
    IN  IF hits = {} THEN None ELSE CHOOSE f \in hits : TRUE

\* m2m_changed, the descriptor loop: the field whose parent model is
\* type(instance) and not kwargs['model']
source_field_name(itype, model) ==
    LET hits == {f \in DOMAIN ThroughDescriptors :
                    /\ ThroughDescriptors[f] # model
                    /\ ThroughDescriptors[f] = itype}
    IN  IF hits = {} THEN None ELSE CHOOSE f \in hits : TRUE

\* filter(**{None: instance}) and None + '__id__in' raise TypeError
m2m_raises(itype, model, pk_set) ==
    \/ source_field_name(itype, model) = None
    \/ pk_set # {} /\ target_field_name(itype, model) = None

\* sender.objects.filter(source = instance), narrowed to the targets of pk_set
\* when pk_set is truthy (pre_clear sends pk_set = None, taken here as {})
m2m_items(rows, itype, ipk, model, pk_set) ==
    {r \in rows :
        /\ r[source_field_name(itype, model)] = ipk
        /\ pk_set # {} => r[target_field_name(itype, model)] \in pk_set}

\* an object of the queryset: the row's fields, no transient attribute
Item(r) ==
    [id |-> r.id, team |-> r.team, account |-> r.account,
     skip_history_when_saving |-> FALSE, history_user |-> None]

RECURSIVE m2m_loop(_, _, _)
\* m2m_changed, the loop over the items in the order the queryset yields them
m2m_loop(tbl, action, items) ==
    IF items = <<>> THEN tbl
    ELSE LET item == Item(Head(items))
         IN  IF action = "post_add"
             THEN IF item.skip_history_when_saving THEN tbl
                  ELSE m2m_loop(create_historical_record(tbl, item,
                                    ThroughFields, "+"),
                                action, Tail(items))
             ELSE IF action \in {"pre_remove", "pre_clear"}
             THEN m2m_loop(create_historical_record(tbl, item,
                               ThroughFields, "-"),
                           action, Tail(items))
             ELSE m2m_loop(tbl, action, Tail(items))

\* the through row joining an owner of type itype with a target
ThroughRow(id, itype, ipk, t) ==
    IF itype = "Account" THEN [id |-> id, team |-> t, account |-> ipk]
                         ELSE [id |-> id, team |-> ipk, account |-> t]

TargetOf(itype, r) == IF itype = "Account" THEN r.team ELSE r.account
OwnerOf(itype, r) == IF itype = "Account" THEN r.account ELSE r.team

\* the targets related to the owner
Present(rows, itype, ipk) ==
    {TargetOf(itype, r) : r \in {x \in rows : OwnerOf(itype, x) = ipk}}

RECURSIVE InsertRows(_, _, _, _, _)
\* bulk_create of the through rows of the new targets, in ascending order
InsertRows(rows, next, itype, ipk, ids) ==
    IF ids = {} THEN rows
    ELSE LET t == CHOOSE x \in ids : \A y \in ids : x <= y
         IN  InsertRows(rows \cup {ThroughRow(next, itype, ipk, t)},
                        next + 1, itype, ipk, ids \ {t})

M2MRecord(op, itype, ipk, pk_set, raised) ==
    [NoOp EXCEPT !.op = op, !.pk = ipk, !.itype = itype, !.pk_set = pk_set,
                 !.present = Present(through, itype, ipk),
                 !.raised = raised,
                 !.before = Len(history.rows),
                 !.tbefore = Len(through_history.rows)]

\* instance.<relation>.add(*objs): Django sends m2m_changed 'pre_add' with the
\* targets not yet related, inserts their through rows, sends 'post_add'
M2MAdd(itype, ipk, objs) ==
    LET model == RelatedModel(itype)
        new_ids == objs \ Present(through, itype, ipk)
        rows2 == InsertRows(through, through_next_id, itype, ipk, new_ids)
    IN  /\ nops < MaxOps
        /\ objs # {}
        /\ nops' = nops + 1
        /\ IF m2m_raises(itype, model, new_ids)
           THEN /\ UNCHANGED <<through, through_next_id, through_history>>
                /\ last' = M2MRecord("add", itype, ipk, new_ids, "TypeError")
           ELSE /\ through' = rows2
                /\ through_next_id' = through_next_id + Cardinality(new_ids)
                /\ \E pre \in SetToSeqs(m2m_items(through, itype, ipk, model,
                                                  new_ids)) :
                   \E post \in SetToSeqs(m2m_items(rows2, itype, ipk, model,
                                                   new_ids)) :
                       through_history' =
                           m2m_loop(m2m_loop(through_history, "pre_add", pre),
                                    "post_add", post)
                /\ last' = M2MRecord("add", itype, ipk, new_ids, None)
        /\ UNCHANGED <<saved, name, skip, history, mutations, now>>
        /\ just_skipped' = just_skipped
        /\ UNCHANGED fkVars

\* instance.<relation>.remove(*objs): Django sends 'pre_remove' with the ids
\* of objs, deletes their through rows, sends 'post_remove'
M2MRemove(itype, ipk, objs) ==
    LET model == RelatedModel(itype)
        rows2 == {r \in through :
                     ~(OwnerOf(itype, r) = ipk /\ TargetOf(itype, r) \in objs)}
    IN  /\ nops < MaxOps
        /\ objs # {}
        /\ nops' = nops + 1
        /\ IF m2m_raises(itype, model, objs)
           THEN /\ UNCHANGED <<through, through_history>>
                /\ last' = M2MRecord("remove", itype, ipk, objs, "TypeError")
           ELSE /\ through' = rows2
                /\ \E pre \in SetToSeqs(m2m_items(through, itype, ipk, model,
                                                  objs)) :
                   \E post \in SetToSeqs(m2m_items(rows2, itype, ipk, model,
                                                   objs)) :
                       through_history' =
                           m2m_loop(m2m_loop(through_history, "pre_remove",
                                             pre),
                                    "post_remove", post)
                /\ last' = M2MRecord("remove", itype, ipk, objs, None)
        /\ UNCHANGED <<saved, name, skip, history, mutations, now,
                       through_next_id>>
        /\ just_skipped' = just_skipped
        /\ UNCHANGED fkVars

\* instance.<relation>.clear(): Django sends 'pre_clear' with pk_set = None,
\* deletes the owner's through rows, sends 'post_clear'
M2MClear(itype, ipk) ==
    LET model == RelatedModel(itype)
        rows2 == {r \in through : OwnerOf(itype, r) # ipk}
    IN  /\ nops < MaxOps
        /\ nops' = nops + 1
        /\ IF m2m_raises(itype, model, {})
           THEN /\ UNCHANGED <<through, through_history>>
                /\ last' = M2MRecord("clear", itype, ipk, {}, "TypeError")
           ELSE /\ through' = rows2
                /\ \E pre \in SetToSeqs(m2m_items(through, itype, ipk, model,
                                                  {})) :
                   \E post \in SetToSeqs(m2m_items(rows2, itype, ipk, model,
                                                   {})) :
                       through_history' =
                           m2m_loop(m2m_loop(through_history, "pre_clear",
                                             pre),
                                    "post_clear", post)
                /\ last' = M2MRecord("clear", itype, ipk, {}, None)
        /\ UNCHANGED <<saved, name, skip, history, mutations, now,
                       through_next_id>>
        /\ just_skipped' = just_skipped
        /\ UNCHANGED fkVars

\* ------------------------------------------------- the foreign-key downgrade
Models == 0 .. MaxChain
NoRel == {}
Unset == {}

AutoPk == [cls |-> "AutoField", rel |-> NoRel, primary_key |-> TRUE,
           unique |-> FALSE, db_index |-> FALSE, max_length |-> Unset,
           null |-> FALSE]
CharPk == [cls |-> "CharField", rel |-> NoRel, primary_key |-> TRUE,
           unique |-> FALSE, db_index |-> FALSE, max_length |-> {10},
           null |-> FALSE]
OneToOnePk(m) == [cls |-> "OneToOneField", rel |-> {m}, primary_key |-> TRUE,
                  unique |-> TRUE, db_index |-> TRUE, max_length |-> Unset,
                  null |-> FALSE]

\* the primary keys model m may have: a one-to-one primary key points at a
\* model defined earlier
PkChoices(m) == {AutoPk, CharPk} \cup {OneToOnePk(j) : j \in 0 .. (m - 1)}

\* copy_fields: the history column of a ForeignKey to model m
CustomForeignKey(m) ==
    [cls |-> "CustomForeignKey", rel |-> {m}, primary_key |-> FALSE,
     unique |-> FALSE, db_index |-> TRUE, max_length |-> Unset, null |-> TRUE]

ScalarClasses == {"IntegerField", "CharField", "TextField"}

\* transform_field, on the attributes modelled here (class, primary_key,
\* unique, db_index)
transform_field(f) ==
    LET g == [f EXCEPT !.cls = IF f.cls = "AutoField" THEN "IntegerField"
                               ELSE IF f.cls = "FileField" THEN "TextField"
                               ELSE f.cls]
    IN  IF g.primary_key \/ g.unique
        THEN [g EXCEPT !.primary_key = FALSE, !.unique = FALSE,
                       !.db_index = TRUE]
        ELSE g

\* self.rel.to._meta.pk
ToField(f) == pk_of[CHOOSE m \in f.rel : TRUE]

\* get_one_to_one_field: a new field of self's class that takes every public
\* attribute of to_field (rel and primary_key included; _unique is private)
TempField(self, to_field) ==
    [to_field EXCEPT !.cls = self.cls, !.unique = FALSE]

\* get_field, the branches that end the recursion
DowngradedField(self, to_field) ==
    IF to_field.cls = "AutoField"
    THEN [self EXCEPT !.cls = "IntegerField"]
    ELSE [self EXCEPT !.cls = to_field.cls,
                      !.primary_key = to_field.primary_key,
                      !.max_length = to_field.max_length]

Allocated == DOMAIN fields

\* do_related_class calls self.get_field(other, cls)
DoRelatedClassCall ==
    /\ fk_pc = "start"
    /\ fk_pc' = "get_field"
    /\ fk_cur' = 0
    /\ UNCHANGED <<pk_of, other, fields, fk_ret>>
    /\ UNCHANGED auditVars

\* get_field on a one-to-one primary key: get_one_to_one_field builds
\* temp_field and calls get_field on it
GetFieldOneToOne ==
    LET to_field == ToField(fields[fk_cur])
        n == Cardinality(Allocated)
    IN  /\ fk_pc = "get_field"
        /\ to_field.cls = "OneToOneField"
        /\ fields' = [i \in Allocated \cup {n} |->
                         IF i = n THEN TempField(fields[fk_cur], to_field)
                                  ELSE fields[i]]
        /\ fk_cur' = n
        /\ UNCHANGED <<pk_of, other, fk_pc, fk_ret>>
        /\ UNCHANGED auditVars

\* get_field on an auto-increment or scalar primary key: the field it runs
\* on is downgraded in place and returned through every pending call
GetFieldReturn ==
    LET to_field == ToField(fields[fk_cur])
    IN  /\ fk_pc = "get_field"
        /\ to_field.cls # "OneToOneField"
        /\ fields' = [fields EXCEPT
                         ![fk_cur] = DowngradedField(fields[fk_cur], to_field)]
        /\ fk_ret' = fk_cur
        /\ fk_pc' = "returned"
        /\ UNCHANGED <<pk_of, other, fk_cur>>
        /\ UNCHANGED auditVars

\* do_related_class: transform_field(field); field.rel = None
DoRelatedClassFinish ==
    /\ fk_pc = "returned"
    /\ fields' = [fields EXCEPT
                     ![fk_ret] = [transform_field(fields[fk_ret])
                                     EXCEPT !.rel = NoRel]]
    /\ fk_pc' = "done"
    /\ UNCHANGED <<pk_of, other, fk_cur, fk_ret>>
    /\ UNCHANGED auditVars

\* ------------------------------------------------- specifications
InitAudit ==
    /\ saved = {}
    /\ name = [pk \in Instances |-> "A"]
    /\ skip = {}
    /\ history = EmptyTable
    /\ through = {}
    /\ through_next_id = 1
    /\ through_history = EmptyTable
    /\ now = 0
    /\ nops = 0
    /\ mutations = <<>>
    /\ last = NoOp
    /\ just_skipped = {}

Init ==
    /\ InitAudit
    /\ pk_of = [m \in Models |-> AutoPk]
    /\ other = 0
    /\ fields = [i \in {0} |-> CustomForeignKey(other)]
    /\ fk_pc = "idle"
    /\ fk_cur = 0
    /\ fk_ret = 0

Next ==
    \/ \E pk \in Instances, nm \in Names, outcome \in Outcomes :
           Save(pk, nm, outcome)
    \/ \E pk \in Instances, nm \in Names, outcome \in Outcomes :
           SaveWithoutHistoricalRecord(pk, nm, outcome)
    \/ \E pk \in Instances, nm \in Names : RawSave(pk, nm)
    \/ \E pk \in Instances : Delete(pk)
    \/ \E pk \in Instances : SetSkip(pk)
    \/ Tick
    \/ \E itype \in InstanceTypes :
       \E ipk \in Owners(itype), objs \in SUBSET Targets(itype) :
           M2MAdd(itype, ipk, objs)
    \/ \E itype \in InstanceTypes :
       \E ipk \in Owners(itype), objs \in SUBSET Targets(itype) :
           M2MRemove(itype, ipk, objs)
    \/ \E itype \in InstanceTypes : \E ipk \in Owners(itype) :
           M2MClear(itype, ipk)

Spec == Init /\ [][Next]_vars

\* the downgrade of one history column, for every shape of the referenced
\* primary key
InitFK ==
    /\ InitAudit
    /\ pk_of \in {f \in [Models -> UNION {PkChoices(m) : m \in Models}] :
                     \A m \in Models : f[m] \in PkChoices(m)}
    /\ other \in Models
    /\ fields = [i \in {0} |-> CustomForeignKey(other)]
    /\ fk_pc = "start"
    /\ fk_cur = 0
    /\ fk_ret = 0

NextFK ==
    \/ DoRelatedClassCall
    \/ GetFieldOneToOne
    \/ GetFieldReturn
    \/ DoRelatedClassFinish

SpecFK == InitFK /\ [][NextFK]_vars

\* ------------------------------------------------- the default ordering
\* ordering with the sequence id ascending (mutant)
ordering_id_ascending(a, b) ==
    \/ a.history_date > b.history_date
    \/ a.history_date = b.history_date /\ a.history_id < b.history_id

\* get_meta_options: ordering = ('-history_date', '-history_id');
\* a is retrieved before b
ordering(a, b) ==
    \/ a.history_date > b.history_date
    \/ a.history_date = b.history_date /\ a.history_id > b.history_id

RECURSIVE InsertOrdered(_, _)
InsertOrdered(x, s) ==
    IF s = <<>> THEN <<x>>
    ELSE IF ordering(x, Head(s)) THEN <<x>> \o s
    ELSE <<Head(s)>> \o InsertOrdered(x, Tail(s))

RECURSIVE DefaultOrder(_)
\* the rows as a query without order_by returns them under Meta.ordering
DefaultOrder(rows) ==
    IF rows = <<>> THEN <<>>
    ELSE InsertOrdered(Head(rows), DefaultOrder(Tail(rows)))

\* ------------------------------------------------- claims
\* the audit rows of one source instance, in the order they were created
RowsOf(pk) == SelectSeq(history.rows, LAMBDA r : r.attrs.id = pk)

\* the rows the operation performed last has added to each historical table
NewRows == SubSeq(history.rows, last.before + 1, Len(history.rows))
NewThroughRows ==
    SubSeq(through_history.rows, last.tbefore + 1, Len(through_history.rows))

TypeCodes(rows) == [i \in 1 .. Len(rows) |-> rows[i].history_type]

CodeOf(op) == IF op = "insert" THEN "+" ELSE IF op = "update" THEN "~" ELSE "-"

\* the change-type codes of the non-suppressed mutations of an instance
ExpectedCodes(pk) ==
    LET ms == SelectSeq(mutations, LAMBDA m : m.pk = pk /\ ~m.suppressed)
    IN  [i \in 1 .. Len(ms) |-> CodeOf(ms[i].op)]

OnlyPlainSaves(pk) ==
    \A i \in 1 .. Len(mutations) : mutations[i].pk = pk => ~mutations[i].raw

RECURSIVE Reverse(_)
Reverse(s) == IF s = <<>> THEN <<>> ELSE Append(Reverse(Tail(s)), Head(s))

IsPrefix(s, t) ==
    /\ Len(s) <= Len(t)
    /\ \A i \in 1 .. Len(s) : t[i] = s[i]

SaveDone == last.op \in {"save", "save_without_historical_record", "raw_save"}
                /\ last.outcome = "ok"

\* C1: for every sequence of inserts, updates and deletes of one source
\* instance, each save ordinary or suppressed, the instance's audit rows are
\* exactly one per non-suppressed mutation and their change-type codes come
\* in the order the mutations were performed.
C1_RowsMatchMutations ==
    \A pk \in Instances :
        OnlyPlainSaves(pk) => TypeCodes(RowsOf(pk)) = ExpectedCodes(pk)

\* C2: a save performed with the suppression marker set creates no audit
\* row, be it the instance's first insert or a later update.
C2_SuppressedSaveCreatesNoRow ==
    (SaveDone /\ last.marker) => NewRows = <<>>

\* C3: post_delete creates exactly one audit row, of type '-', for the
\* deleted instance, in every state, the suppression marker present or not.
C3_DeleteAlwaysRecorded ==
    last.op = "delete" =>
        /\ Len(history.rows) = last.before + 1
        /\ Len(NewRows) = 1
        /\ NewRows[1].history_type = "-"
        /\ NewRows[1].attrs.id = last.pk

\* C3 witness: a delete whose instance carried the marker and whose preceding
\* save was suppressed has added its '-' row.
C3_Witness ==
    /\ last.op = "delete"
    /\ last.marker
    /\ Len(mutations) >= 2
    /\ mutations[Len(mutations) - 1].pk = last.pk
    /\ mutations[Len(mutations) - 1].suppressed
    /\ Len(NewRows) = 1
    /\ NewRows[1].history_type = "-"

\* C4: after save_without_historical_record finishes, by return or by raise,
\* the instance carries no marker, and the ordinary save that follows it on
\* the same instance creates its audit row.
C4_MarkerNeverLeaks ==
    /\ last.op = "save_without_historical_record" => last.pk \notin skip
    /\ (last.op = "save" /\ last.after_swhr /\ last.outcome = "ok") =>
           /\ ~last.marker
           /\ Len(NewRows) = 1
           /\ NewRows[1].history_type = (IF last.created THEN "+" ELSE "~")
           /\ NewRows[1].attrs.id = last.pk

\* C4 witness: an ordinary update directly after a suppressed save of the
\* same instance has added its '~' row.
C4_Witness ==
    /\ last.op = "save"
    /\ last.after_swhr
    /\ last.outcome = "ok"
    /\ ~last.created
    /\ Len(NewRows) = 1
    /\ NewRows[1].history_type = "~"

\* the rows added are exactly one row of the given type per target in S,
\* each for the owner's through row with that target
OnePerTarget(rows, type, itype, ipk, S) ==
    /\ Len(rows) = Cardinality(S)
    /\ \A t \in S :
           \E i \in 1 .. Len(rows) :
               /\ rows[i].history_type = type
               /\ OwnerOf(itype, rows[i].attrs) = ipk
               /\ TargetOf(itype, rows[i].attrs) = t

\* C5: post_add with changed-id set S creates exactly one 'created' row per
\* target in S on the through relation's history, pre_remove with set S
\* exactly one 'deleted' row per target in S, and pre_clear exactly one
\* 'deleted' row per member present for that owner at clear time, none for
\* other owners.
C5_OneRowPerChangedTarget ==
    /\ (last.op = "add" /\ last.raised = None) =>
           OnePerTarget(NewThroughRows, "+", last.itype, last.pk, last.pk_set)
    /\ (last.op = "remove" /\ last.raised = None) =>
           OnePerTarget(NewThroughRows, "-", last.itype, last.pk, last.pk_set)
    /\ (last.op = "clear" /\ last.raised = None) =>
           OnePerTarget(NewThroughRows, "-", last.itype, last.pk, last.present)

\* C6: audit rows are append-only: every step keeps every row of both
\* historical tables, with its values, and only adds rows after them.
C6_AppendOnly ==
    [][/\ IsPrefix(history.rows, history'.rows)
       /\ IsPrefix(through_history.rows, through_history'.rows)]_vars

\* C6 witness: the instance was inserted, changed and deleted, its source row
\* is gone and its three audit rows are all there.
C6_Witness ==
    \E pk \in Instances :
        /\ last.op = "delete"
        /\ last.pk = pk
        /\ pk \notin saved
        /\ TypeCodes(RowsOf(pk)) = <<"+", "~", "-">>

\* C7: for a single source instance the default retrieval order of its audit
\* rows is the reverse of the order the mutations were performed in, equal
\* timestamps included.
C7_ReverseChronological ==
    \A pk \in Instances : DefaultOrder(RowsOf(pk)) = Reverse(RowsOf(pk))

\* C7 witness: an instance has two audit rows with the same timestamp.
C7_Witness ==
    \E pk \in Instances :
        /\ Len(RowsOf(pk)) >= 2
        /\ \E i, j \in 1 .. Len(RowsOf(pk)) :
               /\ i < j
               /\ RowsOf(pk)[i].history_date = RowsOf(pk)[j].history_date

\* C8 as stated: the raw flag exempts only updates: post_save with
\* created=False and raw=True creates no row, and post_save with created=True
\* creates a '+' row whenever the marker is absent, whatever raw is.
C8_RawExemptsOnlyUpdates ==
    /\ (SaveDone /\ ~last.created /\ last.raw) => NewRows = <<>>
    /\ (SaveDone /\ last.created /\ ~last.marker) =>
           /\ Len(NewRows) = 1
           /\ NewRows[1].history_type = "+"

\* C8 amended: the raw flag exempts inserts as well as updates: post_save
\* with raw=True creates no row whatever created is, and post_save with
\* created=True and raw=False creates a '+' row whenever the marker is absent.
C8_RawExemptsEverySave ==
    /\ (SaveDone /\ last.raw) => NewRows = <<>>
    /\ (SaveDone /\ last.created /\ ~last.raw /\ ~last.marker) =>
           /\ Len(NewRows) = 1
           /\ NewRows[1].history_type = "+"
           /\ NewRows[1].attrs.id = last.pk

\* C8 witness: a raw save has inserted the instance and added no row.
C8_Witness ==
    /\ last.op = "raw_save"
    /\ last.created
    /\ last.pk \in saved
    /\ NewRows = <<>>

M2MDone == last.op \in {"add", "remove", "clear"}

\* C9: when the owner side or the target side of the relation cannot be
\* determined from the through model's descriptors, m2m_changed raises no
\* error and creates no audit row.
C9_UndeterminedSideIsSilent ==
    (/\ M2MDone
     /\ \/ source_field_name(last.itype, RelatedModel(last.itype)) = None
        \/ target_field_name(last.itype, RelatedModel(last.itype)) = None)
    => (last.raised = None /\ NewThroughRows = <<>>)

RECURSIVE ResolvedPk(_)
\* the primary key a chain of one-to-one primary keys ends in
ResolvedPk(m) ==
    IF pk_of[m].cls = "OneToOneField"
    THEN ResolvedPk(CHOOSE j \in pk_of[m].rel : TRUE)
    ELSE pk_of[m]

\* C10: do_related_class ends for every chain of one-to-one primary keys,
\* and the history column itself is then a plain scalar column of the
\* resolved type (integer for auto-increment) with rel = None.
C10_ColumnDowngraded ==
    fk_pc = "done" =>
        /\ fields[0].rel = NoRel
        /\ fields[0].cls \in ScalarClasses
        /\ fields[0].cls = (IF ResolvedPk(other).cls = "AutoField"
                            THEN "IntegerField"
                            ELSE ResolvedPk(other).cls)

====
